---- MODULE Spec2Model ----
(***************************************************************************)
(* TelloPy keyboard_and_video example: the keyboard dispatch of main(),    *)
(* the key handlers, the video thread and the telemetry (HUD) callback,    *)
(* as a state machine over the module globals and the display.             *)
(***************************************************************************)
EXTENDS Integers, Sequences, FiniteSets, TLC

\* ------------------------------------------------------------------ bounds
\* At most this many keys are held down at once.
MaxHeld == 2
\* Timestamps (seconds) a recording filename can be derived from: 1..MaxClock.
MaxClock == 1
\* At most this many recordings are started.
MaxRecs == 1
\* The video stream holds at most this many packets.
MaxPackets == 2
\* Distinct flight-data texts the drone reports: 1..MaxData.
MaxData == 1
\* Surface widths and heights run over 1..MaxDim (and FloatDims, TallDims).
MaxDim == 4
\* A packet decodes to at most this many frames.
MaxFrames == 1

\* --------------------------------------------------------------- constants
\* main(): speed = 30
InitSpeed == 30
\* the arrow-key lambdas: speed*2
ArrowFactor == 2
\* a call without an argument (takeoff(), land(), quit(), ...)
NoArg == -1

VARIABLES
    mainpc,          \* where the main thread is
    held,            \* keys whose KEYDOWN was taken from the event queue and
                     \* whose KEYUP was not yet
    speed,           \* main()'s local speed
    calls,           \* the drone calls made by the last dispatched event
    last,            \* per motion command, the magnitude last sent to the drone
    zoom,            \* drone.zoom
    quit_called,     \* drone.quit() has been called
    help_mode,       \* global help_mode
    video_recorder,  \* global video_recorder: None, a filename, or a recorder
    recs,            \* every recorder av.open(..., 'w') has returned
    help_shape,      \* what the scaled help image covers of the display
    screen,          \* the display surface (back buffer)
    shown,           \* what the last pygame.display.flip() presented
    framebuffer,     \* main()'s framebuffer, which the video thread draws on
    vpc,             \* where videoStreamThread is
    vref,            \* the recorder line 230 has loaded and is about to call
    packets,         \* packets demuxed so far
    nframes,         \* frames of the current packet drawn so far
    hpc,             \* where the flight-data callback is
    hdata,           \* the flight data the callback is drawing
    prev_flight_data, \* global prev_flight_data (0: None)
    scpc,            \* where a call of blitScaled is
    scale_in,        \* its arguments: <<ow, oh, dw, dh>>
    scale_out        \* the scaled size <<sw, sh>> and the blit offset <<x, y>>

mainvars == <<mainpc, held, speed, calls, last, zoom, quit_called>>
recvars == <<video_recorder, recs>>
dispvars == <<screen, shown, framebuffer>>
videovars == <<vpc, vref, packets, nframes>>
hudvars == <<hpc, hdata, prev_flight_data>>
scalevars == <<scpc, scale_in, scale_out>>
\* what no step of the main thread changes
othervars == <<videovars, hudvars, scalevars, help_shape>>
vars == <<mainpc, held, speed, calls, last, zoom, quit_called, help_mode,
          video_recorder, recs, help_shape, screen, shown, framebuffer,
          vpc, vref, packets, nframes, hpc, hdata, prev_flight_data,
          scpc, scale_in, scale_out>>

\* ------------------------------------------------------------ key names
MotionKeys == {"w", "s", "a", "d", "space", "left shift", "right shift",
               "q", "e", "left", "right", "up", "down"}
ArrowKeys == {"left", "right", "up", "down"}
OneShotKeys == {"tab", "backspace", "p", "enter", "return"}
\* Every key name the model's keyboard can produce (pygame.key.name): the
\* keys of the two tables and "x", a key that neither table names.
Keys == MotionKeys \cup OneShotKeys
          \cup {"r", "z", "h", "escape", "=", "+", "-", "x"}

MotionCmds == {"forward", "backward", "left", "right", "up", "down",
               "clockwise", "counter_clockwise"}

\* settings.CONTROLS: command name -> bound identifiers
CONTROLS ==
    [c \in {"forward", "backward", "left", "right", "up", "down",
            "counter_clockwise", "clockwise", "takeoff", "land", "palm_land",
            "record", "zoom", "take_picture", "help", "faster", "slower",
            "exit"} |->
       CASE c = "forward"  -> {"w", "YButton"}
         [] c = "backward" -> {"s", "AButton"}
         [] c = "left"     -> {"a", "XButton"}
         [] c = "right"    -> {"d", "BButton"}
         [] c = "up"       -> {"space", "DPadUp"}
         [] c = "down"     -> {"left shift", "right shift", "DPadDown"}
         [] c = "counter_clockwise" -> {"q", "left", "DPadLeft"}
         [] c = "clockwise" -> {"e", "right", "DPadRight"}
         [] c = "takeoff"  -> {"tab", "R1"}
         [] c = "land"     -> {"backspace", "L1"}
         [] c = "palm_land" -> {"p"}
         [] c = "record"   -> {"r"}
         [] c = "zoom"     -> {"z"}
         [] c = "take_picture" -> {"enter", "return"}
         [] c = "help"     -> {"h"}
         [] c = "faster"   -> {"=", "+"}
         [] c = "slower"   -> {"-"}
         [] c = "exit"     -> {"escape"}]

\* A dispatch-table entry: a string (a drone method name) or a function.
Attr(n) == [kind |-> "str", name |-> n]
Fn(n) == [kind |-> "fn", name |-> n]

\* keyboard_and_video.controls
controls ==
    [k \in MotionKeys \cup OneShotKeys \cup {"r", "z", "h"} |->
       CASE k = "w" -> Attr("forward")
         [] k = "s" -> Attr("backward")
         [] k = "a" -> Attr("left")
         [] k = "d" -> Attr("right")
         [] k = "space" -> Attr("up")
         [] k = "left shift" -> Attr("down")
         [] k = "right shift" -> Attr("down")
         [] k = "q" -> Attr("counter_clockwise")
         [] k = "e" -> Attr("clockwise")
         [] k = "left" -> Fn("lambda_left")
         [] k = "right" -> Fn("lambda_right")
         [] k = "up" -> Fn("lambda_up")
         [] k = "down" -> Fn("lambda_down")
         [] k = "tab" -> Fn("lambda_tab")
         [] k = "backspace" -> Fn("lambda_backspace")
         [] k = "p" -> Fn("palm_land")
         [] k = "r" -> Fn("toggle_recording")
         [] k = "z" -> Fn("toggle_zoom")
         [] k = "enter" -> Fn("take_picture")
         [] k = "return" -> Fn("take_picture")
         [] k = "h" -> Fn("toggle_help")]

Call(c, a) == [cmd |-> c, arg |-> a]

\* ------------------------------------------------------------ the handlers
\* The drone calls a dispatch-table entry makes when called with (drone, s):
\* a string entry is getattr(drone, name)(s); the lambdas and the functions
\* are translated one by one.
\* getattr(drone, key_handler)(s)
AttrCall(name, s) == <<Call(name, s)>>

\* a faulty variant of ArrowCall: the arrow keys without their factor
ArrowCallUnscaled(cmd, s) == <<Call(cmd, s)>>

\* lambda drone, speed: drone.<cmd>(speed*2)
ArrowCall(cmd, s) == <<Call(cmd, s * ArrowFactor)>>

HandlerCalls(h, s, z) ==
    IF h.kind = "str" THEN AttrCall(h.name, s)
    ELSE CASE h.name = "lambda_left" -> ArrowCall("counter_clockwise", s)
           [] h.name = "lambda_right" -> ArrowCall("clockwise", s)
           [] h.name = "lambda_up" -> ArrowCall("up", s)
           [] h.name = "lambda_down" -> ArrowCall("down", s)
           [] h.name = "lambda_tab" -> <<Call("takeoff", NoArg)>>
           [] h.name = "lambda_backspace" -> <<Call("land", NoArg)>>
           [] h.name = "palm_land" ->
                IF s = 0 THEN <<>> ELSE <<Call("palm_land", NoArg)>>
           [] h.name = "take_picture" ->
                IF s = 0 THEN <<>> ELSE <<Call("take_picture", NoArg)>>
           [] h.name = "toggle_zoom" ->
                IF s = 0 THEN <<>>
                ELSE <<Call("set_video_mode", IF z THEN 0 ELSE 1)>>
           [] OTHER -> <<>>

\* The drone after a sequence of calls: the magnitude last sent per motion
\* command, and drone.zoom.
RECURSIVE LastAfter(_, _)
LastAfter(l, cs) ==
    IF cs = <<>> THEN l
    ELSE LastAfter(IF Head(cs).cmd \in MotionCmds
                     THEN [l EXCEPT ![Head(cs).cmd] = Head(cs).arg]
                     ELSE l,
                   Tail(cs))

ZoomAfter(z, cs) ==
    IF \E i \in 1..Len(cs) : cs[i].cmd = "set_video_mode" THEN ~z ELSE z

\* ------------------------------------------------- aspectScale, blitScaled
\* Sizes beyond 1..MaxDim at which the float arithmetic of line 196 shows.
FloatDims == {11, 15}
\* A height that leaves room to blit an image below the first inked row of
\* the HUD text: a margin of 16 rows, an offset of int(16/2) = 8.
TallDims == {17}
Dims == 1..MaxDim \cup FloatDims \cup TallDims

\* m * (num/den) in IEEE-754 doubles comes out just below the whole number
\* m*num/den.  Among the sizes of Dims (and up to 7) this happens for
\* 11 * (15/11) = 14.999999999999998 only.
FloatProductFallsShort(m, num, den) == m = 11 /\ num = 15 /\ den = 11

\* int(m * (num/den)): the double product, truncated
TruncProduct(m, num, den) ==
    IF (m * num) % den = 0 /\ FloatProductFallsShort(m, num, den)
      THEN (m * num) \div den - 1
      ELSE (m * num) \div den

\* a faulty variant of MinScale: max(sx, sy) for min(sx, sy)
MaxScale(ow, oh, dw, dh) ==
    IF dw * oh >= dh * ow THEN <<dw, ow>> ELSE <<dh, oh>>

\* min(sx, sy) of sx,sy = (dw/ow, dh/oh), as <<numerator, denominator>>
MinScale(ow, oh, dw, dh) ==
    IF dw * oh <= dh * ow THEN <<dw, ow>> ELSE <<dh, oh>>

\* aspectScale: (int(ow*min(sx,sy)), int(oh*min(sx,sy)))
aspectScale(ow, oh, dw, dh) ==
    LET f == MinScale(ow, oh, dw, dh)
    IN  <<TruncProduct(ow, f[1], f[2]), TruncProduct(oh, f[1], f[2])>>

\* int(n/2): the quotient truncated toward zero
TruncHalf(n) == IF n >= 0 THEN n \div 2 ELSE -((-n) \div 2)

\* blitScaled, lines 203-204
blitOffset(dw, dh, sw, sh) == <<TruncHalf(dw - sw), TruncHalf(dh - sh)>>


\* ------------------------------------------------------------ the display
\* A surface of the size of the display, in four regions about its centre:
\* mid (the centre), side (left and right of it), cap (above and below it)
\* and corner; hud tells whether ink of the HUD text, which update_hud
\* blits at (0,0), shows in the top-left corner.
Uniform(img) ==
    [mid |-> img, side |-> img, cap |-> img, corner |-> img, hud |-> FALSE]

\* fill((0,0,0))
Black == Uniform("black")

\* update_hud renders text only (the fill of line 167 is commented out): the
\* rows of the overlay above the first inked row of its text are empty.
\* font.render of the 32-pixel DejaVu Sans Mono of line 247 hints its glyphs
\* the way FreeType does by default: the ascent is 30, the tallest glyph
\* rises 23 rows above the baseline, so rows 0..6 are empty and row HudTop
\* is the first inked one.  An image blitted at column 0 and no lower than
\* row HudTop lies over all the ink of the HUD.
HudTop == 7

\* What blitScaled covers of its destination: the scaled image spans the
\* whole width (w), the whole height (h), both or, where the float product
\* falls short, neither; and it lies over the HUD text (over) when its
\* offset (x, y) of lines 203-204 has x = 0 and y <= HudTop, which a
\* margin of one pixel also gives: int(1/2) = 0.  An image with such an
\* offset leaves a margin of at most 2 * HudTop + 1 rows and reaches past
\* the text.  The sizes are taken from Dims, where FloatProductFallsShort
\* tells how line 196 rounds.
ShapeOf(ow, oh, dw, dh) ==
    LET s == aspectScale(ow, oh, dw, dh)
        at == blitOffset(dw, dh, s[1], s[2])
    IN  [w |-> s[1] = dw, h |-> s[2] = dh,
         over |-> at[1] = 0 /\ at[2] <= HudTop]

\* <<ow, oh, dw, dh>>: an image of the aspect of its destination; narrower
\* ones, blitted at x = 0 (a margin of one pixel) and at x = 1; flatter
\* ones, blitted at y = 0, at y = 1, at y = 7 (the first inked row of the
\* HUD) and at y = 8, below it; and two whose scaled size falls short of the
\* limiting side, blitted at x = 0 and at x = 1.
SampleSizes ==
    {<<4, 3, 4, 3>>,
     <<3, 3, 4, 3>>, <<1, 3, 4, 3>>,
     <<4, 2, 4, 3>>, <<4, 1, 4, 3>>, <<4, 1, 4, 15>>, <<4, 1, 4, 17>>,
     <<1, 11, 2, 15>>, <<1, 11, 3, 15>>}

Shapes == {ShapeOf(s[1], s[2], s[3], s[4]) : s \in SampleSizes}

\* blitScaled(dst, src): the scaled image is blitted centred and the
\* destination is not cleared first, so what the image does not cover stays.
\* An image that lies over the HUD text covers it, whether or not it
\* reaches the edges of the destination.
BlitOn(dst, img, sh) ==
    [mid |-> img,
     side |-> IF sh.w THEN img ELSE dst.side,
     cap |-> IF sh.h THEN img ELSE dst.cap,
     corner |-> IF sh.w /\ sh.h THEN img ELSE dst.corner,
     hud |-> dst.hud /\ ~sh.over]

\* The shape of an image that has the aspect of the display.
FullShape == ShapeOf(4, 3, 4, 3)

\* The help image on an empty display, as main() draws it at line 254.
HelpImage(sh) == BlitOn(Black, "help", sh)

\* The values of the global video_recorder: None, the filename of a
\* requested recording (a str), or recorder number id of recs.
None == [kind |-> "none"]
Filename(t) == [kind |-> "str", name |-> t]
Recorder(i) == [kind |-> "rec", id |-> i]

IsFn(h, n) == h.kind = "fn" /\ h.name = n

\* toggle_help(drone, s), its first statement: line 89 (key-up) fills the
\* display black, line 93 (key-down) draws the help image over what is there.
SurfaceAfter(s, surf, sh) ==
    IF s # 0 THEN BlitOn(surf, "help", sh) ELSE Black

\* toggle_recording(drone, s), past its "if speed == 0: return".
TogglesRecording(h, s) == IsFn(h, "toggle_recording") /\ s # 0

\* "if video_recorder:" is true of a filename and of a recorder alike, and
\* video_recorder.close() raises AttributeError on a filename (a str).
ToggleRaises(vr) == vr.kind = "str"

\* The positions of videoStreamThread past its test of line 225 and before
\* the end of mux_one of line 230.
InFlightPcs == {"stream", "load", "mux"}

\* video_recorder.close().  The field busy of a recorder keeps, for the
\* record, whether the video thread stood between its test and the end of
\* mux_one (inflight) when close() ran on the open recorder.
RecsAfterClose(vr, rs, inflight) ==
    IF vr.kind = "rec" /\ rs[vr.id].open
      THEN [rs EXCEPT ![vr.id].open = FALSE, ![vr.id].busy = inflight]
      ELSE rs

\* -------------------------------------------------------------------- Init
\* main() has drawn the help screen (lines 240-255) and waits for a KEYUP.
\* speed and framebuffer are locals that do not exist yet; nothing reads
\* them before lines 265 and 273 assign them.
InitProgram ==
    /\ mainpc = "help_wait"
    /\ held = {}
    /\ speed = InitSpeed
    /\ calls = <<>>
    /\ last = [c \in MotionCmds |-> 0]
    /\ zoom = FALSE
    /\ quit_called = FALSE
    /\ help_mode = FALSE
    /\ video_recorder = None
    /\ recs = <<>>
    /\ help_shape \in Shapes
    /\ screen = HelpImage(help_shape)
    /\ shown = HelpImage(help_shape)
    /\ framebuffer = Black
    /\ vpc = "demux"
    /\ vref = 0
    /\ packets = 0
    /\ nframes = 0
    /\ hpc = "idle"
    /\ hdata = 0
    /\ prev_flight_data = 0

\* The sizes of a blitScaled call are not followed in the program itself.
Init ==
    /\ InitProgram
    /\ scpc = "idle"
    /\ scale_in = <<1, 1, 1, 1>>
    /\ scale_out = [size |-> <<1, 1>>, at |-> <<0, 0>>]

\* ------------------------------------------------------------ main thread
\* main(), lines 256-259, a KEYDOWN: the wait loop takes the event and
\* drops it.  The key stays down.
HelpKeyDown(k) ==
    /\ mainpc = "help_wait"
    /\ k \notin held
    /\ Cardinality(held) < MaxHeld
    /\ held' = held \cup {k}
    /\ UNCHANGED <<mainpc, speed, calls, last, zoom, quit_called, help_mode,
                   recvars, dispvars, othervars>>

\* main(), lines 256-259, a KEYUP of any key ends the help screen.  Keys
\* that are still down have their KEYUP dispatched by the event loop.
HelpKeyUp(k) ==
    /\ mainpc = "help_wait"
    /\ k \in held
    /\ held' = held \ {k}
    /\ mainpc' = "startup"
    /\ UNCHANGED <<speed, calls, last, zoom, quit_called, help_mode,
                   recvars, dispvars, othervars>>

\* main(), lines 261-271: the display is filled black and flipped, speed
\* is set, the drone connected and the flight-data handler subscribed.  No
\* other thread of the program runs before the subscription.
Startup ==
    /\ mainpc = "startup"
    /\ screen' = Black
    /\ shown' = Black
    /\ speed' = InitSpeed
    /\ mainpc' = "copy"
    /\ UNCHANGED <<held, calls, last, zoom, quit_called, help_mode,
                   recvars, framebuffer, othervars>>

\* main(), line 273: framebuffer = pygame.display.get_surface().copy()
CopyFramebuffer ==
    /\ mainpc = "copy"
    /\ framebuffer' = screen
    /\ mainpc' = "start"
    /\ UNCHANGED <<held, speed, calls, last, zoom, quit_called, help_mode,
                   recvars, screen, shown, othervars>>

\* main(), line 274: the video thread is started
StartVideo ==
    /\ mainpc = "start"
    /\ mainpc' = "loop"
    /\ UNCHANGED <<held, speed, calls, last, zoom, quit_called, help_mode,
                   recvars, dispvars, othervars>>

\* a faulty variant of Escape: os._exit(0) without drone.quit()
EscapeNoQuit ==
    /\ mainpc' = "os_exit"
    /\ UNCHANGED <<speed, calls, last, zoom, quit_called, help_mode,
                   recvars, dispvars>>

\* if keyname == 'escape': drone.quit() (line 288)
Escape ==
    /\ calls' = <<Call("quit", NoArg)>>
    /\ quit_called' = TRUE
    /\ mainpc' = "os_exit"
    /\ UNCHANGED <<speed, last, zoom, help_mode, recvars, dispvars>>

\* key_handler = controls[keyname], called with (drone, s): s is speed on
\* KEYDOWN and 0 on KEYUP.  The step is the handler up to its first
\* statement that another thread can see: the drone call of a motion or
\* one-shot entry and of toggle_zoom (line 80), the draw of toggle_help
\* (line 89 or 93), the test and the assignment of toggle_recording
\* (lines 49 and 57).  The rest of a handler follows in steps of its own.
Dispatch(h, s) ==
    /\ calls' = HandlerCalls(h, s, zoom)
    /\ last' = LastAfter(last, HandlerCalls(h, s, zoom))
    /\ zoom' = ZoomAfter(zoom, HandlerCalls(h, s, zoom))
    /\ UNCHANGED <<speed, quit_called, help_mode, recs, shown, framebuffer>>
    /\ IF IsFn(h, "toggle_help")
         THEN /\ screen' = SurfaceAfter(s, screen, help_shape)
              /\ mainpc' = IF s # 0 THEN "help_on_flip" ELSE "help_off_flip"
              /\ UNCHANGED video_recorder
       ELSE IF IsFn(h, "toggle_zoom") /\ s # 0
         THEN /\ mainpc' = "zoom_fill"
              /\ UNCHANGED <<screen, video_recorder>>
       ELSE IF TogglesRecording(h, s)
         THEN /\ UNCHANGED screen
              /\ IF video_recorder.kind = "none"
                   THEN /\ \E t \in 1..MaxClock :
                             video_recorder' = Filename(t)
                        /\ UNCHANGED mainpc
                   ELSE /\ mainpc' = "rec_close"
                        /\ UNCHANGED video_recorder
       ELSE UNCHANGED <<mainpc, screen, video_recorder>>

\* a faulty variant of Unbound: the lookup controls[keyname] without its guard
\* raises KeyError
UnboundRaises ==
    /\ calls' = <<>>
    /\ mainpc' = "finally"
    /\ UNCHANGED <<speed, last, zoom, quit_called, help_mode,
                   recvars, dispvars>>

\* a faulty variant of Unbound: a key without an entry raises the speed by 10,
\* with no clamp
UnboundAdjustsSpeed ==
    /\ calls' = <<>>
    /\ speed' = speed + 10
    /\ UNCHANGED <<mainpc, last, zoom, quit_called, help_mode,
                   recvars, dispvars>>

\* "if keyname in controls": a key without an entry does nothing.
Unbound ==
    /\ calls' = <<>>
    /\ UNCHANGED <<mainpc, speed, last, zoom, quit_called, help_mode,
                   recvars, dispvars>>

\* main(), lines 282-295: one KEYDOWN event of pygame.event.get().
KeyDown(k) ==
    /\ mainpc = "events"
    /\ k \notin held
    /\ Cardinality(held) < MaxHeld
    /\ (video_recorder.kind = "none" /\ k \in DOMAIN controls
          /\ TogglesRecording(controls[k], speed)) => Len(recs) < MaxRecs
    /\ held' = held \cup {k}
    /\ UNCHANGED othervars
    /\ IF k = "escape" THEN Escape
       ELSE IF k \in DOMAIN controls THEN Dispatch(controls[k], speed)
       ELSE Unbound

\* main(), lines 282 and 297-305: one KEYUP event of pygame.event.get().
KeyUp(k) ==
    /\ mainpc = "events"
    /\ k \in held
    /\ held' = held \ {k}
    /\ UNCHANGED othervars
    /\ IF k \in DOMAIN controls THEN Dispatch(controls[k], 0) ELSE Unbound

\* line 289: os._exit(0) ends the process and every thread in it
Exit0 ==
    /\ mainpc = "os_exit"
    /\ mainpc' = "exit0"
    /\ UNCHANGED <<held, speed, calls, last, zoom, quit_called, help_mode,
                   recvars, dispvars, othervars>>

\* pygame.display.flip() of toggle_help (lines 90, 94) and of toggle_zoom
\* (line 82)
HandlerFlip ==
    /\ mainpc \in {"help_on_flip", "help_off_flip", "zoom_flip"}
    /\ shown' = screen
    /\ mainpc' = CASE mainpc = "help_on_flip" -> "help_on_set"
                   [] mainpc = "help_off_flip" -> "help_off_set"
                   [] OTHER -> "events"
    /\ UNCHANGED <<held, speed, calls, last, zoom, quit_called, help_mode,
                   recvars, screen, framebuffer, othervars>>

\* toggle_help, lines 91 and 95: help_mode = False / True
HelpSet ==
    /\ mainpc \in {"help_on_set", "help_off_set"}
    /\ help_mode' = (mainpc = "help_on_set")
    /\ mainpc' = "events"
    /\ UNCHANGED <<held, speed, calls, last, zoom, quit_called,
                   recvars, dispvars, othervars>>

\* toggle_zoom, line 81: the display surface is filled black
ZoomFill ==
    /\ mainpc = "zoom_fill"
    /\ screen' = Black
    /\ mainpc' = "zoom_flip"
    /\ UNCHANGED <<held, speed, calls, last, zoom, quit_called, help_mode,
                   recvars, shown, framebuffer, othervars>>

\* toggle_recording, line 51: video_recorder.close(), called from the event
\* loop (rec_close) or from the finally block (fin_close).  On a filename
\* it raises: in the loop the except clause leads to the finally block,
\* in the finally block the exception leaves main().
RecClose ==
    /\ mainpc \in {"rec_close", "fin_close"}
    /\ IF ToggleRaises(video_recorder)
         THEN /\ mainpc' = IF mainpc = "rec_close" THEN "finally"
                           ELSE "crashed"
              /\ UNCHANGED recs
         ELSE /\ recs' = RecsAfterClose(video_recorder, recs,
                                            vpc \in InFlightPcs)
              /\ mainpc' = IF mainpc = "rec_close" THEN "rec_clear"
                           ELSE "fin_clear"
    /\ UNCHANGED <<held, speed, calls, last, zoom, quit_called, help_mode,
                   video_recorder, dispvars, othervars>>

\* a faulty variant of RecClear: the stop closes the recorder and leaves it
\* in video_recorder
RecClearKeeps ==
    /\ mainpc \in {"rec_clear", "fin_clear"}
    /\ mainpc' = IF mainpc = "rec_clear" THEN "events" ELSE "quit"
    /\ UNCHANGED <<held, speed, calls, last, zoom, quit_called, help_mode,
                   video_recorder, recs, dispvars, othervars>>

\* toggle_recording, line 53: video_recorder = None
RecClear ==
    /\ mainpc \in {"rec_clear", "fin_clear"}
    /\ video_recorder' = None
    /\ mainpc' = IF mainpc = "rec_clear" THEN "events" ELSE "quit"
    /\ UNCHANGED <<held, speed, calls, last, zoom, quit_called, help_mode,
                   recs, dispvars, othervars>>

\* main(), lines 278-279: outside help mode the framebuffer is blitted at
\* (0,0) and covers the whole display surface; in help mode the iteration
\* goes on to its events.
Present ==
    /\ mainpc = "loop"
    /\ IF help_mode
         THEN mainpc' = "events" /\ UNCHANGED screen
         ELSE mainpc' = "flip" /\ screen' = framebuffer
    /\ UNCHANGED <<held, speed, calls, last, zoom, quit_called, help_mode,
                   recvars, shown, framebuffer, othervars>>

\* main(), lines 280-281: pygame.display.flip(), then the sleep
Flip ==
    /\ mainpc = "flip"
    /\ shown' = screen
    /\ mainpc' = "events"
    /\ UNCHANGED <<held, speed, calls, last, zoom, quit_called, help_mode,
                   recvars, screen, framebuffer, othervars>>

\* main(), line 282: the events of this iteration are dispatched; the loop
\* starts over at line 278.
EndEvents ==
    /\ mainpc = "events"
    /\ mainpc' = "loop"
    /\ UNCHANGED <<held, speed, calls, last, zoom, quit_called, help_mode,
                   recvars, dispvars, othervars>>

\* The positions of the try block (lines 276-305) at which a library call
\* is next: in the loop body (pygame, the drone's socket) and in the key
\* handlers it calls (fill and flip of toggle_zoom and toggle_help, close()
\* and status_print of toggle_recording).
TryPcs ==
    {"loop", "flip", "events", "zoom_fill", "zoom_flip", "help_on_flip",
     "help_off_flip", "rec_close", "rec_clear"}

\* A library call of the try block raises before it has had an effect: the
\* except clause prints the trace and control reaches the finally block.
LoopRaise ==
    /\ mainpc \in TryPcs
    /\ mainpc' = "finally"
    /\ UNCHANGED <<held, speed, calls, last, zoom, quit_called, help_mode,
                   recvars, dispvars, othervars>>

\* main(), lines 311-312 and 49: if video_recorder: toggle_recording(drone, 1)
Finally ==
    /\ mainpc = "finally"
    /\ mainpc' = IF video_recorder.kind = "none" THEN "quit" ELSE "fin_close"
    /\ UNCHANGED <<held, speed, calls, last, zoom, quit_called, help_mode,
                   recvars, dispvars, othervars>>

\* main(), lines 313-314: drone.quit(); exit(1)
Quit ==
    /\ mainpc = "quit"
    /\ quit_called' = TRUE
    /\ mainpc' = "exit1"
    /\ UNCHANGED <<held, speed, calls, last, zoom, help_mode,
                   recvars, dispvars, othervars>>

\* The process is over: os._exit(0) ends it at once; after exit(1), or an
\* exception that leaves the finally block, the interpreter still waits
\* for the video thread, which is not a daemon.
ProcessEnded ==
    \/ mainpc = "exit0"
    \/ mainpc \in {"exit1", "crashed"} /\ vpc \in {"ended", "dead"}

\* ----------------------------------------------------------- video thread
\* The thread runs from line 274 on, until os._exit(0) ends the process.
VideoRuns ==
    mainpc \notin {"help_wait", "startup", "copy", "start", "exit0"}

\* for packet in container.demux(video=0), line 217: the next packet
VDemux ==
    /\ VideoRuns /\ vpc = "demux"
    /\ packets < MaxPackets
    /\ packets' = packets + 1
    /\ nframes' = 0
    /\ vpc' = "decode"
    /\ UNCHANGED <<mainvars, help_mode, recvars, dispvars, vref, hudvars,
                   scalevars, help_shape>>

\* lines 218-220: one frame of the packet is scaled and blitted on the
\* framebuffer.  The frame's size, and so the shape it covers, is the
\* drone's choice (its video mode).
VFrame(sh) ==
    /\ VideoRuns /\ vpc = "decode"
    /\ nframes < MaxFrames
    /\ nframes' = nframes + 1
    /\ framebuffer' = BlitOn(framebuffer, "video", sh)
    /\ UNCHANGED <<mainvars, help_mode, recvars, screen, shown, vpc, vref,
                   packets, hudvars, scalevars, help_shape>>

\* packet.decode() has no frame left (it may have had none at all)
VDecoded ==
    /\ VideoRuns /\ vpc = "decode"
    /\ nframes' = 0
    /\ vpc' = "check"
    /\ UNCHANGED <<mainvars, help_mode, recvars, dispvars, vref, packets,
                   hudvars, scalevars, help_shape>>

\* container.demux is exhausted: the thread returns.
VEnd ==
    /\ VideoRuns /\ vpc = "demux"
    /\ vpc' = "ended"
    /\ UNCHANGED <<mainvars, help_mode, recvars, dispvars, vref, packets,
                   nframes, hudvars, scalevars, help_shape>>

\* lines 222-223: a pending filename is replaced by a recorder opened on it.
\* No step of the main thread changes a filename held by the global.
VCheck ==
    /\ VideoRuns /\ vpc = "check"
    /\ IF video_recorder.kind = "str"
         THEN /\ recs' = Append(recs, [name |-> video_recorder.name,
                                        open |-> TRUE, muxed |-> 0,
                                        late |-> FALSE, busy |-> FALSE])
              /\ video_recorder' = Recorder(Len(recs) + 1)
              /\ vpc' = "add_stream"
         ELSE /\ vpc' = "test"
              /\ UNCHANGED recvars
    /\ UNCHANGED <<mainvars, help_mode, dispvars, vref, packets, nframes,
                   hudvars, scalevars, help_shape>>

\* What a call on a closed container does is the av library's affair and
\* not fixed by this source: it raises, which ends the thread, or returns.
AfterClosedCall(next) == {next, "dead"}

\* line 224: video_recorder.add_stream(...) reads the global again; on None
\* it raises AttributeError and the thread dies.
VAddStream ==
    /\ VideoRuns /\ vpc = "add_stream"
    /\ IF video_recorder.kind # "rec"
         THEN vpc' = "dead"
         ELSE IF recs[video_recorder.id].open
                THEN vpc' = "test"
                ELSE vpc' \in AfterClosedCall("test")
    /\ UNCHANGED <<mainvars, help_mode, recvars, dispvars, vref,
                   packets, nframes, hudvars, scalevars, help_shape>>

\* line 225: if video_recorder: (true of a filename too)
VTest ==
    /\ VideoRuns /\ vpc = "test"
    /\ vpc' = IF video_recorder.kind = "none" THEN "demux" ELSE "stream"
    /\ UNCHANGED <<mainvars, help_mode, recvars, dispvars, vref, packets,
                   nframes, hudvars, scalevars, help_shape>>

\* line 229: packet.stream = video_recorder.streams[0]; None and a filename
\* have no attribute streams.
VStream ==
    /\ VideoRuns /\ vpc = "stream"
    /\ vpc' = IF video_recorder.kind = "rec" THEN "load" ELSE "dead"
    /\ UNCHANGED <<mainvars, help_mode, recvars, dispvars, vref, packets,
                   nframes, hudvars, scalevars, help_shape>>

\* line 230, the load of video_recorder.mux_one
VLoad ==
    /\ VideoRuns /\ vpc = "load"
    /\ IF video_recorder.kind = "rec"
         THEN vref' = video_recorder.id /\ vpc' = "mux"
         ELSE vref' = vref /\ vpc' = "dead"
    /\ UNCHANGED <<mainvars, help_mode, recvars, dispvars, packets, nframes,
                   hudvars, scalevars, help_shape>>

\* line 230, the call of mux_one(packet) on the loaded recorder; a call on a
\* recorder closed meanwhile is recorded in its field late, which no other
\* step sets.
VMux ==
    /\ VideoRuns /\ vpc = "mux"
    /\ IF recs[vref].open
         THEN /\ recs' = [recs EXCEPT ![vref].muxed = @ + 1]
              /\ vpc' = "demux"
         ELSE /\ recs' = [recs EXCEPT ![vref].late = TRUE]
              /\ vpc' \in AfterClosedCall("demux")
    /\ vref' = 0
    /\ UNCHANGED <<mainvars, help_mode, video_recorder, dispvars, packets,
                   nframes, hudvars, scalevars, help_shape>>

VideoNext ==
    \/ VDemux
    \/ \E sh \in Shapes : VFrame(sh)
    \/ VDecoded
    \/ VEnd
    \/ VCheck
    \/ VAddStream
    \/ VTest
    \/ VStream
    \/ VLoad
    \/ VMux

\* ------------------------------------------------------ telemetry callback
\* The drone library calls flightDataHandler from its own thread, from the
\* subscription at line 270 until the end of the process.  Whether it still
\* does after drone.quit() is the library's affair: it may.
TelemetryRuns ==
    mainpc \notin {"help_wait", "startup"} /\ ~ProcessEnded

\* flightDataHandler with data whose text differs from prev_flight_data,
\* up to update_hud's "if help_mode: return".
FlightData(d) ==
    /\ TelemetryRuns /\ hpc = "idle"
    /\ prev_flight_data # d
    /\ IF help_mode
         THEN prev_flight_data' = d /\ UNCHANGED <<hpc, hdata>>
         ELSE hpc' = "draw" /\ hdata' = d /\ UNCHANGED prev_flight_data
    /\ UNCHANGED <<mainvars, help_mode, recvars, dispvars, videovars,
                   scalevars, help_shape>>

\* update_hud, lines 156-170: the overlay is blitted on the display surface
\* at (0,0); then prev_flight_data = text.
HudDraw ==
    /\ hpc = "draw"
    /\ ~ProcessEnded
    /\ screen' = [screen EXCEPT !.hud = TRUE]
    /\ prev_flight_data' = hdata
    /\ hdata' = 0
    /\ hpc' = "idle"
    /\ UNCHANGED <<mainvars, help_mode, recvars, shown, framebuffer,
                   videovars, scalevars, help_shape>>

HudNext ==
    \/ \E d \in 1..MaxData : FlightData(d)
    \/ HudDraw

\* The steps of the main thread that take no event.
StartSteps ==
    \/ Startup
    \/ CopyFramebuffer
    \/ StartVideo

LoopSteps ==
    \/ Present
    \/ Flip
    \/ EndEvents
    \/ LoopRaise
    \/ Finally
    \/ Quit

DrawSteps ==
    \/ HandlerFlip
    \/ HelpSet
    \/ ZoomFill

RecSteps ==
    \/ RecClose
    \/ RecClear

KeyboardNext ==
    \/ \E k \in Keys : HelpKeyDown(k)
    \/ \E k \in Keys : HelpKeyUp(k)
    \/ \E k \in Keys : KeyDown(k)
    \/ \E k \in Keys : KeyUp(k)
    \/ StartSteps
    \/ LoopSteps
    \/ DrawSteps
    \/ RecClose
    \/ Exit0

\* The program started with a help image of the display's aspect.
InitFull == Init /\ help_shape = FullShape

\* The keyboard alone: every key, no video packet and no telemetry arrives.
\* Without the video thread no recorder is ever opened, so a stop of the
\* recording never gets past close() (line 51) to line 53.
SpecKeyboard == InitFull /\ [][KeyboardNext]_vars

\* The keys that act on the recording and the display, and the exit key.
AVKeys == {"r", "h", "z", "escape"}

AVMainNext ==
    \/ \E k \in AVKeys : HelpKeyDown(k)
    \/ \E k \in AVKeys : HelpKeyUp(k)
    \/ \E k \in AVKeys : KeyDown(k)
    \/ \E k \in AVKeys : KeyUp(k)
    \/ StartSteps
    \/ LoopSteps
    \/ DrawSteps
    \/ RecSteps
    \/ Exit0

\* The three threads together, the keyboard limited to AVKeys and the help
\* image of the display's aspect.
Next == AVMainNext \/ VideoNext \/ HudNext

Spec == InitFull /\ [][Next]_vars

\* ---------------------------------------------------- the recording alone
\* The recording key and the exit key, the video thread and the telemetry
\* callback.  The help image has the aspect of the display, and the
\* packets decode to no frame, so that nothing is drawn on the framebuffer:
\* the display is followed in SpecDisplay.
RecKeys == {"r", "escape"}

RecordingNext ==
    \/ \E k \in RecKeys : HelpKeyDown(k)
    \/ \E k \in RecKeys : HelpKeyUp(k)
    \/ \E k \in RecKeys : KeyDown(k)
    \/ \E k \in RecKeys : KeyUp(k)
    \/ StartSteps
    \/ LoopSteps
    \/ RecSteps
    \/ Exit0
    \/ VDemux
    \/ VDecoded
    \/ VEnd
    \/ VCheck
    \/ VAddStream
    \/ VTest
    \/ VStream
    \/ VLoad
    \/ VMux
    \/ HudNext

SpecRecording == InitFull /\ [][RecordingNext]_vars

\* ------------------------------------------------------ the display alone
\* The help key and the zoom key, the frames of the video thread and the
\* telemetry callback; no recording is requested.
DisplayKeys == {"h", "z"}

DisplayNext ==
    \/ \E k \in DisplayKeys : HelpKeyDown(k)
    \/ \E k \in DisplayKeys : HelpKeyUp(k)
    \/ \E k \in DisplayKeys : KeyDown(k)
    \/ \E k \in DisplayKeys : KeyUp(k)
    \/ StartSteps
    \/ LoopSteps
    \/ DrawSteps
    \/ VDemux
    \/ \E sh \in Shapes : VFrame(sh)
    \/ VDecoded
    \/ VEnd
    \/ VCheck
    \/ VTest
    \/ HudNext

SpecDisplay == Init /\ [][DisplayNext]_vars

\* ------------------------------------------------- one call of blitScaled
\* blitScaled is called with a source of size (ow, oh) and a destination of
\* size (dw, dh).
ScaleInit ==
    /\ InitProgram
    /\ scpc = "call"
    /\ scale_in \in Dims \X Dims \X Dims \X Dims
    /\ scale_out = [size |-> <<1, 1>>, at |-> <<0, 0>>]

\* blitScaled, lines 200-202: src = aspectScale(src, dst_size)
ScaleStep ==
    /\ scpc = "call"
    /\ scale_out' = [scale_out EXCEPT !.size =
                       aspectScale(scale_in[1], scale_in[2],
                                   scale_in[3], scale_in[4])]
    /\ scpc' = "scaled"
    /\ UNCHANGED <<mainvars, help_mode, recvars, dispvars, videovars,
                   hudvars, scale_in, help_shape>>

\* blitScaled, lines 203-205: dst.blit(src, (x,y))
BlitStep ==
    /\ scpc = "scaled"
    /\ scale_out' = [scale_out EXCEPT !.at =
                       blitOffset(scale_in[3], scale_in[4],
                                  scale_out.size[1], scale_out.size[2])]
    /\ scpc' = "blitted"
    /\ UNCHANGED <<mainvars, help_mode, recvars, dispvars, videovars,
                   hudvars, scale_in, help_shape>>

blitScaled == ScaleStep \/ BlitStep

\* One call of blitScaled, for every source and destination size of Dims.
SpecScale == ScaleInit /\ [][blitScaled]_vars

\* ------------------------------------------------------------------ types
MainPcs ==
    {"help_wait", "startup", "copy", "start", "loop", "flip", "events",
     "help_on_flip", "help_on_set", "help_off_flip", "help_off_set",
     "zoom_fill", "zoom_flip", "rec_close", "rec_clear", "os_exit",
     "finally", "fin_close", "fin_clear", "quit", "exit0", "exit1",
     "crashed"}

Images == {"black", "help", "video"}

Surfaces ==
    [mid : Images, side : Images, cap : Images, corner : Images,
     hud : BOOLEAN]

TypeOK ==
    /\ mainpc \in MainPcs
    /\ held \subseteq Keys /\ Cardinality(held) <= MaxHeld
    /\ speed \in Nat
    /\ last \in [MotionCmds -> Nat]
    /\ zoom \in BOOLEAN /\ quit_called \in BOOLEAN /\ help_mode \in BOOLEAN
    /\ video_recorder.kind \in {"none", "str", "rec"}
    /\ Len(recs) <= MaxRecs
    /\ help_shape \in [w : BOOLEAN, h : BOOLEAN, over : BOOLEAN]
    /\ screen \in Surfaces /\ shown \in Surfaces /\ framebuffer \in Surfaces
    /\ vpc \in {"demux", "decode", "check", "add_stream", "test", "stream",
                 "load", "mux", "dead", "ended"}
    /\ vref \in 0..MaxRecs /\ packets \in 0..MaxPackets
    /\ nframes \in 0..MaxFrames
    /\ hpc \in {"idle", "draw"}
    /\ hdata \in 0..MaxData /\ prev_flight_data \in 0..MaxData
    /\ scpc \in {"idle", "call", "scaled", "blitted"}
    /\ scale_in \in Dims \X Dims \X Dims \X Dims

\* ----------------------------------------------------------------- claims
\* A step that takes the KEYDOWN of k from the event queue, and one that
\* takes its KEYUP: in the help screen's wait loop or in the event loop.
Down(k) == k \notin held /\ k \in held'
Up(k) == k \in held /\ k \notin held'

\* A step of the event loop (lines 282-305) that dispatches the KEYDOWN of
\* k, and one that dispatches its KEYUP.
Pressed(k) == mainpc = "events" /\ Down(k)
Released(k) == mainpc = "events" /\ Up(k)

\* The command each key stands for: settings.CONTROLS, and for the up and
\* down arrows the module docstring ("arrow keys to ascend, descend").
BoundCmd(k) ==
    IF k = "up" THEN "up"
    ELSE IF k = "down" THEN "down"
    ELSE CHOOSE c \in DOMAIN CONTROLS : k \in CONTROLS[c]

\* C1 (as claimed): for tab, backspace, p, enter and return, the key-down
\* issues the key's drone command exactly once and the key-up issues no
\* drone command.
C1_OneShotFiresOnPressOnly ==
    [][\A k \in OneShotKeys :
          /\ Pressed(k) => calls' = <<Call(BoundCmd(k), NoArg)>>
          /\ Released(k) => calls' = <<>>]_vars

\* C2: the key-down of a continuous-motion key issues its motion command
\* with a non-zero magnitude, speed (twice speed for the arrow keys), and
\* the key-up of the same key issues the same command with magnitude 0.
C2_MotionPressAndRelease ==
    [][\A k \in MotionKeys :
          /\ Pressed(k) =>
                /\ calls' = <<Call(BoundCmd(k),
                                   IF k \in ArrowKeys THEN 2 * speed ELSE speed)>>
                /\ calls'[1].arg # 0
          /\ Released(k) => calls' = <<Call(BoundCmd(k), 0)>>]_vars

\* C2's case: w was pressed and released, and the release sent forward(0).
C2_Witness ==
    /\ mainpc = "events"
    /\ calls = <<Call("forward", 0)>>
    /\ "w" \notin held
    /\ last["forward"] = 0

\* C3 (as claimed): while a key bound to a motion command is held down, the
\* magnitude last sent for that command is non-zero.
C3_HeldKeyKeepsMoving ==
    mainpc \in {"loop", "flip", "events"} =>
        \A k \in held \cap MotionKeys : last[BoundCmd(k)] # 0

\* C4 (as claimed): a press of r while idle leaves a pending filename; the
\* next press of r, whatever the video thread has done meanwhile, closes
\* the recorder, clears video_recorder and does not raise; a key-up of r
\* changes nothing of the recording.
C4_RecordingToggleFlips ==
    [][/\ Pressed("r") =>
            IF video_recorder.kind = "none"
              THEN video_recorder'.kind = "str" /\ mainpc' = "events"
              ELSE mainpc' = "rec_close"
       /\ (mainpc = "rec_close" /\ mainpc' # mainpc
            /\ video_recorder.kind = "str") => mainpc' = "rec_clear"
       /\ (mainpc = "rec_close" /\ mainpc' = "rec_clear") =>
            \A i \in 1..Len(recs') : ~recs'[i].open
       /\ (mainpc = "rec_clear" /\ mainpc' = "events") =>
            video_recorder' = None
       /\ Released("r") => UNCHANGED <<video_recorder, recs, mainpc>>]_vars

\* C5 (as claimed): after an exception in the main loop the finally block
\* runs to its end: drone.quit() is called, the recording is closed and
\* cleared and exit(1) is reached, whatever the recording state was.
C5_ExceptionReachesShutdown ==
    /\ mainpc # "crashed"
    /\ mainpc = "exit1" =>
          /\ quit_called
          /\ video_recorder = None
          /\ \A i \in 1..Len(recs) : ~recs[i].open

\* C6 (as claimed): once the event loop runs, every keyboard identifier
\* that settings.CONTROLS binds has a press handler (an entry of controls,
\* or the exit key's inline branch); otherwise the process has ended
\* before the loop.
C6_EveryBindingHasHandler ==
    mainpc # "help_wait" =>
        \A c \in DOMAIN CONTROLS : \A k \in CONTROLS[c] \cap Keys :
            k \in DOMAIN controls \/ k = "escape"

\* The keys of the keyboard that lines 97-120 give no entry and that are
\* not the exit key.
UnboundKeys == {"x", "=", "+", "-"}

\* C7: the key-down and the key-up of a key without a dispatch-table entry
\* issue no drone command, leave the recording state, the help flag, the
\* speed, the drone and the display as they were, and do not raise; the
\* event loop goes on with its events.
C7_UnboundKeyIsNoOp ==
    [][\A k \in UnboundKeys :
          /\ (Down(k) \/ Up(k)) =>
                /\ calls' = <<>>
                /\ mainpc' \in {"help_wait", "startup", "events"}
                /\ UNCHANGED <<video_recorder, recs, help_mode, speed, last,
                               zoom, quit_called, screen, shown>>
          /\ (Pressed(k) \/ Released(k)) => mainpc' = "events"]_vars

\* C7's case: the unbound key x is down, a motion key is held with it and
\* the drone still moves.
C7_Witness ==
    /\ mainpc = "events"
    /\ held = {"w", "x"}
    /\ calls = <<>>
    /\ last["forward"] = InitSpeed

\* C8 (as claimed): while h is held and the help overlay is active, the
\* display presents the static help image and nothing else is drawn on the
\* display surface.
C8_HelpOverlayStaysShown ==
    (help_mode /\ "h" \in held) =>
        (shown = HelpImage(help_shape) /\ screen = HelpImage(help_shape))

\* C9: the key-down of escape calls drone.quit() and no dispatch-table
\* handler runs for the event; the main thread then does nothing but end
\* the process with status 0: no drone command follows the teardown, and
\* after the exit no thread takes a step.
C9_EscapeQuitsAndExits ==
    [][/\ Pressed("escape") =>
            /\ calls' = <<Call("quit", NoArg)>>
            /\ quit_called'
            /\ mainpc' = "os_exit"
            /\ UNCHANGED <<last, zoom, help_mode, video_recorder, recs,
                           screen, shown, speed>>
       /\ mainpc = "os_exit" =>
            /\ mainpc' \in {"os_exit", "exit0"}
            /\ UNCHANGED <<calls, last, zoom, held>>
       /\ mainpc = "exit0" => UNCHANGED vars
       /\ mainpc' \in {"os_exit", "exit0"} => quit_called']_vars

\* C9's case: escape was pressed while a recording was running.
C9_Witness ==
    /\ mainpc = "exit0"
    /\ quit_called
    /\ "escape" \in held
    /\ calls = <<Call("quit", NoArg)>>
    /\ video_recorder.kind = "rec"

\* C10: the speed is never above 100 and never below its floor (10 at the
\* highest reading of the spec), whatever keys were pressed, the keys =, +
\* and - included.
C10_SpeedBounded ==
    speed >= 10 /\ speed <= 100

\* C10's case: a faster key and the slower key are both down.
C10_Witness ==
    /\ mainpc = "events"
    /\ held = {"=", "-"}
    /\ speed = InitSpeed


\* The double product m * (n/d) of line 196 comes out just below the whole
\* number m*n/d: among the sizes of Dims, for 11 * (15/11) only.
C11_DoubleFallsShort(m, n, d) == m = 11 /\ n = 15 /\ d = 11

\* int(m * (n/d)) as the program computes it: the truncated quotient, and
\* one less where the double product falls short of a whole number.
C11_Scaled(m, n, d) ==
    IF C11_DoubleFallsShort(m, n, d) THEN (m * n) \div d - 1
    ELSE (m * n) \div d

\* C11 (as claimed): blitScaled scales by f = min(dw/ow, dh/oh), the scaled
\* size is exactly (trunc(ow*f), trunc(oh*f)), the offsets are
\* x = trunc((dw-sw)/2), y = trunc((dh-sh)/2), are not negative, and
\* x+sw <= dw, y+sh <= dh.
C11_ExactScaledSize ==
    scpc = "blitted" =>
        LET ow == scale_in[1]
            oh == scale_in[2]
            dw == scale_in[3]
            dh == scale_in[4]
            sw == scale_out.size[1]
            sh == scale_out.size[2]
            x == scale_out.at[1]
            y == scale_out.at[2]
            \* f = n/d is the smaller of dw/ow and dh/oh
            byWidth == dw * oh <= dh * ow
            n == IF byWidth THEN dw ELSE dh
            d == IF byWidth THEN ow ELSE oh
        IN  /\ n * ow <= dw * d /\ n * oh <= dh * d
            /\ sw = (ow * n) \div d
            /\ sh = (oh * n) \div d
            /\ 2 * x <= dw - sw /\ dw - sw <= 2 * x + 1
            /\ 2 * y <= dh - sh /\ dh - sh <= 2 * y + 1
            /\ x >= 0 /\ y >= 0
            /\ x + sw <= dw /\ y + sh <= dh

\* C11 (amended): as claimed, but the scaled size is the truncated double
\* product: it is (trunc(ow*f), trunc(oh*f)) except where the double
\* product falls just short of a whole number, where it is one less.
C11_AspectScaleFits ==
    scpc = "blitted" =>
        LET ow == scale_in[1]
            oh == scale_in[2]
            dw == scale_in[3]
            dh == scale_in[4]
            sw == scale_out.size[1]
            sh == scale_out.size[2]
            x == scale_out.at[1]
            y == scale_out.at[2]
            \* f = n/d is the smaller of dw/ow and dh/oh
            byWidth == dw * oh <= dh * ow
            n == IF byWidth THEN dw ELSE dh
            d == IF byWidth THEN ow ELSE oh
        IN  /\ n * ow <= dw * d /\ n * oh <= dh * d
            /\ sw = C11_Scaled(ow, n, d)
            /\ sh = C11_Scaled(oh, n, d)
            /\ 2 * x <= dw - sw /\ dw - sw <= 2 * x + 1
            /\ 2 * y <= dh - sh /\ dh - sh <= 2 * y + 1
            /\ x >= 0 /\ y >= 0
            /\ x + sw <= dw /\ y + sh <= dh

\* C11's case: a 1x11 source on a 2x15 destination: f = 15/11, the scaled
\* size is (1, 14) because 11 * (15/11) falls just short of 15, and the
\* blit is at (0, 0).
C11_Witness ==
    /\ scpc = "blitted"
    /\ scale_in = <<1, 11, 2, 15>>
    /\ scale_out = [size |-> <<1, 14>>, at |-> <<0, 0>>]

\* C12: the recording stop of the main thread is not held back while the
\* video thread is between its test of video_recorder (line 225) and the
\* end of mux_one (line 230): close() and the clearing take effect where
\* the video thread stands, and the video thread then dereferences the
\* cleared global (and dies) or calls mux_one on the closed recorder, into
\* which the packet does not go.  A recorder is marked late by that call
\* only, and busy only by a close() of toggle_recording that ran while the
\* video thread stood between the test and the end of mux_one.
C12_StopRacesWithMux ==
    [][/\ (Pressed("r") /\ video_recorder.kind = "rec") =>
              mainpc' = "rec_close" /\ vpc' = vpc
       /\ (mainpc = "rec_close" /\ mainpc' = "rec_clear"
            /\ video_recorder.kind = "rec") =>
              /\ ~recs'[video_recorder.id].open
              /\ vpc' = vpc
              /\ recs[video_recorder.id].open =>
                    (recs'[video_recorder.id].busy <=> vpc \in InFlightPcs)
       /\ (mainpc = "rec_clear" /\ mainpc' = "events") =>
              video_recorder' = None /\ vpc' = vpc
       /\ (vpc \in {"stream", "load"} /\ video_recorder.kind # "rec"
            /\ vpc' # vpc) => vpc' = "dead"
       /\ (vpc = "mux" /\ ~recs[vref].open /\ vpc' # vpc) =>
              /\ recs'[vref].late
              /\ recs'[vref].muxed = recs[vref].muxed
       /\ \A i \in 1..Len(recs) :
              /\ (~recs[i].late /\ recs'[i].late) =>
                    (vpc = "mux" /\ vref = i /\ ~recs[i].open)
              /\ (~recs[i].busy /\ recs'[i].busy) =>
                    (mainpc \in {"rec_close", "fin_close"}
                       /\ vpc \in InFlightPcs
                       /\ recs[i].open /\ ~recs'[i].open)]_vars

\* C12's case: r stopped the recording while the video thread stood between
\* its test and the end of mux_one (busy), and the thread then called
\* mux_one on the closed recorder (late).
C12_Witness ==
    /\ mainpc = "events"
    /\ video_recorder = None
    /\ recs # <<>>
    /\ ~recs[1].open
    /\ recs[1].busy
    /\ recs[1].late

\* C13 (as claimed): with a filename pending, the video thread's next
\* packet opens one recorder on that filename and puts it in place of the
\* filename; the thread takes the mux branch for every packet while a
\* recorder is there, muxes the packet into it unless a stop intervenes,
\* and takes the mux branch in no other state.
C13_RecordingStartsOnNextPacket ==
    [][/\ (vpc = "check" /\ vpc' # vpc /\ video_recorder.kind = "str") =>
              /\ recs' = Append(recs, [name |-> video_recorder.name,
                                        open |-> TRUE, muxed |-> 0,
                                        late |-> FALSE, busy |-> FALSE])
              /\ video_recorder' = Recorder(Len(recs'))
       /\ (vpc = "test" /\ vpc' # vpc) =>
              (vpc' = "stream" <=> video_recorder.kind = "rec")
       /\ (vpc = "mux" /\ vpc' # vpc /\ recs[vref].open) =>
              /\ recs'[vref].muxed = recs[vref].muxed + 1
              /\ vpc' = "demux"
       /\ video_recorder.kind = "str" => vpc' # "dead"]_vars

\* C14 (as claimed): a frame the main loop presents after a telemetry
\* update has been handled carries the HUD over the video.
C14_PresentedFrameCarriesHud ==
    [][(mainpc = "flip" /\ mainpc' = "events" /\ prev_flight_data # 0) =>
          shown'.hud]_vars

\* C15 (as claimed): when the process is over, every recorder the video
\* thread has opened is closed.
C15_NoRecorderOpenAtExit ==
    ProcessEnded => \A i \in 1..Len(recs) : ~recs[i].open
====
